---- MODULE Spec2Model ----
(***************************************************************************)
(* vel2tauc.py: the driver of the inverse SSA solve that recovers the      *)
(* basal yield stress tauc from observed velocities.  The driver (the      *)
(* __main__ block and class Vel2Tauc) is modelled from the source.  The    *)
(* inversion engine it drives (PISM.invert_ssa: InvSSASolver, the tauc     *)
(* parametrisation, the listeners) is not part of the source file; it is   *)
(* modelled from the design document, on a small integer instance.        *)
(***************************************************************************)
EXTENDS Integers, Sequences, FiniteSets, TLC

(* ------------------------------ bounds --------------------------------- *)
NCells == 2
MaxIter == 3
MaxTrials == 2
LinIters == 1
ZetaMax == 8
DivergeTol == 40
UMax == 10
\* the RMS target of the misfit, in the model's units
RmsTol == 0

Cells == 1..NCells

(* ------------------- configuration set by the driver ------------------- *)
\* stress_scale, config "tauc_param_tauc_scale"
TaucScale == 50000
\* config "inv_ssa_tauc_min", "inv_ssa_tauc_max"
TaucMin == 5 * 100
TaucMax == 5 * 10000000
\* -eta, -tikhonov_atol defaults
eta == 1
tikhonov_atol == 1
\* PISM.set_abort_on_sigint(True)
AbortOnSigintOff == FALSE
AbortOnSigint == TRUE

Methods == {"nlcg", "ign", "sd", "tikhonov_lmvm", "tikhonov_cg",
            "tikhonov_blmvm", "tikhonov_lcl"}

\* method.startswith('tikhonov')
IsTikhonovExact(m) == m = "tikhonov"
IsTikhonov(m) == m \in {"tikhonov_lmvm", "tikhonov_cg", "tikhonov_blmvm", "tikhonov_lcl"}

(* ------------------------------ fields --------------------------------- *)
Const(v) == [c \in Cells |-> v]
Zero == Const(0)
Sign(x) == IF x > 0 THEN 1 ELSE IF x < 0 THEN -1 ELSE 0
\* halving towards zero
Half(x) == IF x >= 0 THEN x \div 2 ELSE -((-x) \div 2)

RECURSIVE SumSq(_, _)
SumSq(f, n) == IF n = 0 THEN 0 ELSE f[n] * f[n] + SumSq(f, n - 1)
Norm2(f) == SumSq(f, NCells)

(* ------------------------- parameter transform ------------------------- *)
Clamp(t) == IF t < TaucMin THEN TaucMin ELSE IF t > TaucMax THEN TaucMax ELSE t
\* convertToTauc: zeta -> tauc, bounded to [tauc_min, tauc_max]
to_physical(z) == [c \in Cells |-> Clamp(z[c] * TaucScale)]
\* convertFromTauc: tauc -> zeta, truncating
to_parameter(t) == [c \in Cells |-> t[c] \div TaucScale]

(* ------------------------------- inputs -------------------------------- *)
\* 'tauc' of the input file, 'tauc_prior' of the inverse data file
TaucInputs == {Const(60000), [c \in Cells |-> IF c = 1 THEN 500000 ELSE 60000]}
TaucPriorInput == Const(120000)
\* 'zeta_inv' left in the output file by an earlier run
OldCheckpoint == Const(2)
\* observed velocities: the zeta they correspond to is 2 (near), far from the
\* prior in cell 1, or beyond the residual the engine accepts
ObsNear == [c \in Cells |-> UMax - (IF c = 1 THEN 2 ELSE 1)]
ObsFar == [c \in Cells |-> UMax - (IF c = 1 THEN MaxIter + 2 ELSE 1)]
ObsWild == [c \in Cells |-> UMax - (IF c = 1 THEN 8 ELSE 1)]
Observations == {ObsNear, ObsFar, ObsWild}
\* grounded ice per cell (MaskQuery.grounded_ice)
GroundedInputs == {[c \in Cells |-> c = 1], [c \in Cells |-> FALSE]}
\* the one variable an input file may lack
Missing == {"none", "tauc", "zeta_inv", "misfit_element_mask", "observed"}

Options == [method : Methods, do_plotting : BOOLEAN, monitor_adjoint : BOOLEAN,
            do_pause : BOOLEAN, test_adjoint : BOOLEAN, do_restart : BOOLEAN,
            use_tauc_prior : BOOLEAN, append_mode : BOOLEAN,
            using_zeta_fixed_mask : BOOLEAN]
Inputs == {i \in [tauc : TaucInputs, obs : Observations, grounded : GroundedInputs,
                   missing : Missing] :
             i.missing # "none" =>
               i.tauc = Const(60000) /\ i.obs = ObsNear /\ i.grounded[1]}

(* ------------------------------- state --------------------------------- *)
VARIABLES
  opts, inp,            \* command line options; contents of the input files
  file,                 \* the output file: zeta_inv (and the iteration it is from),
                        \* the siple log in it, how often it has been re-created
  pc,                   \* position of the driver
  abort_on_sigint,      \* PISM's SIGINT mode
  tauc, tauc_prior, zeta,
  mask, fixed,          \* vecs.zeta_fixed_mask; the locations given to the SSA
  itL, linL, xL,        \* listeners, in registration order
  msg, logged,          \* what the driver reported
  logger,               \* the log the capture logger holds ("unset": no logger yet)
  est, epc, iter, reason, d, trial, lin, zeta0,   \* the solver
  evkind, evq, calls,   \* the event being delivered to listeners
  nForward, nAdjoint,   \* forward solves and adjoint evaluations so far
  sigflag, sigint, abortedAt,
  relaunched, ref       \* second process; the uninterrupted solve it is compared to

env == <<opts, inp>>
drv == <<abort_on_sigint, tauc, tauc_prior, zeta, mask, fixed, msg, logged, logger>>
lst == <<itL, linL, xL>>
eng == <<est, epc, iter, reason, d, trial, lin, zeta0>>
evt == <<evkind, evq, calls>>
cnt == <<nForward, nAdjoint>>
sig == <<sigflag, sigint, abortedAt>>
gho == <<relaunched, ref>>
vars == <<env, file, pc, drv, lst, eng, evt, cnt, sig, gho>>

Terminal == {"exit0", "exit1", "exception", "quit", "done", "aborted"}
EngineTerminal == {"Converged", "Diverged", "Failed", "Cancelled"}

\* the memory of a process that has just been started
FreshProcess ==
  /\ abort_on_sigint = FALSE
  /\ tauc = Zero /\ tauc_prior = Zero /\ zeta = Zero
  /\ mask = Zero /\ fixed = Zero
  /\ itL = <<>> /\ linL = <<>> /\ xL = <<>>
  /\ msg = "none" /\ logged = <<>> /\ logger = "unset"
  /\ est = "None" /\ epc = "idle" /\ iter = 0 /\ reason = "none"
  /\ d = Zero /\ trial = 0 /\ lin = 0 /\ zeta0 = Zero
  /\ evkind = "none" /\ evq = <<>> /\ calls = <<>>
  /\ nForward = 0 /\ nAdjoint = 0
  /\ sigflag = FALSE

NoRef == [active |-> FALSE, zeta |-> Zero, iter |-> 0, reason |-> "none"]

\* the output file an earlier run has left: its checkpoint and its siple log
OldFile(has) == [has_zeta |-> has, zeta_inv |-> OldCheckpoint, ckIter |-> 0,
                 log |-> "prior", gen |-> 0]

Init ==
  /\ opts \in Options
  /\ inp \in Inputs
  /\ file = OldFile(inp.missing # "zeta_inv")
  /\ pc = "start"
  /\ FreshProcess
  /\ sigint = FALSE /\ abortedAt = "none"
  /\ relaunched = FALSE /\ ref = NoRef

\* the memory of the process is lost
Forget ==
  /\ abort_on_sigint' = FALSE
  /\ tauc' = Zero /\ tauc_prior' = Zero /\ zeta' = Zero
  /\ mask' = Zero /\ fixed' = Zero
  /\ itL' = <<>> /\ linL' = <<>> /\ xL' = <<>>
  /\ msg' = "none" /\ logged' = <<>> /\ logger' = "unset"
  /\ est' = "None" /\ epc' = "idle" /\ iter' = 0 /\ reason' = "none"
  /\ d' = Zero /\ trial' = 0 /\ lin' = 0 /\ zeta0' = Zero
  /\ evkind' = "none" /\ evq' = <<>> /\ calls' = <<>>
  /\ nForward' = 0 /\ nAdjoint' = 0
  /\ sigflag' = FALSE

(* --------------------- Vel2Tauc (class, lines 37-173) ------------------ *)
\* _initSSACoefficients: the mask is 1 everywhere, then 0 where ice is grounded
ZetaFixedMask(grounded) == [c \in Cells |-> IF grounded[c] THEN 0 ELSE 1]

\* setup: the mask is handed to the SSA only under -use_zeta_fixed_mask
FixedLocationsNever(using, m) == Zero
FixedLocations(using, m) == IF using THEN m ELSE Zero

(* ------------------------ the forward model ---------------------------- *)
\* predicted velocity; the solve does not converge beyond ZetaMax
Forward(z) == [c \in Cells |-> UMax - z[c]]
ForwardFails(z) == \E c \in Cells : z[c] > ZetaMax \/ z[c] < 0

(* -------------------- residual, objective, direction ------------------- *)
MisfitWeight == Const(1)
Residual(z, obs) == [c \in Cells |-> MisfitWeight[c] * (Forward(z)[c] - obs[c])]
Objective(m, z, obs, zp) ==
  IF IsTikhonov(m)
  THEN Norm2(Residual(z, obs)) + eta * Norm2([c \in Cells |-> z[c] - zp[c]])
  ELSE Norm2(Residual(z, obs))
Target(m) == IF IsTikhonov(m) THEN tikhonov_atol ELSE RmsTol

\* the test made once the residual of the current iterate is known
ConvergenceTestAlways(m, z, obs, zp, it) == "Success"
ConvergenceTest(m, z, obs, zp, it) ==
  LET o == Objective(m, z, obs, zp) IN
  IF o <= Target(m) THEN "Success"
  ELSE IF o > DivergeTol THEN "DivergedResidual"
  ELSE IF it >= MaxIter THEN "MaxIterationsExceeded"
  ELSE "continue"

\* dForward/dzeta = -1, so the Gauss-Newton step is the residual itself and
\* the descent direction of the penalised objective is r - eta (z - zp)
RawDirection(m, z, obs, zp) ==
  LET r == Residual(z, obs) IN
  IF m = "ign" THEN r
  ELSE IF IsTikhonov(m) THEN [c \in Cells |-> Sign(r[c] - eta * (z[c] - zp[c]))]
  ELSE IF m = "nlcg" THEN [c \in Cells |-> 2 * Sign(r[c])]
  ELSE [c \in Cells |-> Sign(r[c])]

\* FixedMask enforcement: disallowed components of the direction are zeroed
MaskDir(dir, fx) == [c \in Cells |-> IF fx[c] # 0 THEN 0 ELSE dir[c]]

RECURSIVE Shrink(_, _)
Shrink(x, t) == IF t = 0 THEN x ELSE Shrink(Half(x), t - 1)
Candidate(z, dir, t) == [c \in Cells |-> z[c] + Shrink(dir[c], t)]
\* descent condition; a failed forward solve at the trial point rejects it
Accept(m, z, cand, obs, zp) ==
  /\ ~ForwardFails(cand)
  /\ Objective(m, cand, obs, zp) < Objective(m, z, obs, zp)

\* the configured number of trial evaluations is used up
TrialsNeverExhausted(t) == FALSE
TrialsExhausted(t) == t >= MaxTrials

RECURSIVE FirstAccepted(_, _, _, _, _, _)
FirstAccepted(m, z, dir, obs, zp, t) ==
  IF t >= MaxTrials THEN -1
  ELSE IF Accept(m, z, Candidate(z, dir, t), obs, zp) THEN t
  ELSE FirstAccepted(m, z, dir, obs, zp, t + 1)

\* one whole pass of the iteration loop, as the uninterrupted solve makes it
RefStep(rf, m, fx, obs, zp) ==
  IF ~rf.active \/ rf.reason # "none" THEN rf
  ELSE IF ForwardFails(rf.zeta) THEN [rf EXCEPT !.reason = "ForwardSolveFailure"]
  ELSE LET c == ConvergenceTest(m, rf.zeta, obs, zp, rf.iter) IN
    IF c # "continue" THEN [rf EXCEPT !.reason = c]
    ELSE LET dir == MaskDir(RawDirection(m, rf.zeta, obs, zp), fx)
             t == FirstAccepted(m, rf.zeta, dir, obs, zp, 0) IN
      IF t < 0 THEN [rf EXCEPT !.reason = "LineSearchFailure"]
      ELSE [rf EXCEPT !.zeta = Candidate(rf.zeta, dir, t), !.iter = rf.iter + 1]

StateOf(r) ==
  IF r = "Success" THEN "Converged"
  ELSE IF r = "DivergedResidual" THEN "Diverged"
  ELSE IF r = "UserCancelled" THEN "Cancelled"
  ELSE "Failed"

(* ------------------------- the driver (__main__) ----------------------- *)
\* lines 455-462: restart loads zeta_inv, otherwise the prior is converted
InitialZetaFromPrior(restart, saved, prior) == to_parameter(prior)
InitialZeta(restart, saved, prior) == IF restart THEN saved ELSE to_parameter(prior)

\* lines 534-551: iteration listeners in registration order
IterationListenersPauseFirst(o) ==
  (IF o.do_pause THEN <<"pause">> ELSE <<>>)
  \o (IF o.do_plotting THEN <<"plot">> ELSE <<>>)
  \o (IF o.monitor_adjoint THEN <<"monitor_adjoint">> ELSE <<>>)
  \o (IF IsTikhonov(o.method) THEN <<"printTikhonovProgress">> ELSE <<"printRMSMisfit">>)
IterationListeners(o) ==
  (IF o.do_plotting THEN <<"plot">> ELSE <<>>)
  \o (IF o.monitor_adjoint THEN <<"monitor_adjoint">> ELSE <<>>)
  \o (IF o.do_pause THEN <<"pause">> ELSE <<>>)
  \o (IF IsTikhonov(o.method) THEN <<"printTikhonovProgress">> ELSE <<"printRMSMisfit">>)

\* lines 538-543: linear-iteration listeners, for method 'ign' only
LinearListenersAnyMethod(o) ==
  (IF o.do_plotting THEN <<"lin_plot">> ELSE <<>>)
  \o (IF o.monitor_adjoint THEN <<"monitor_adjoint_lin">> ELSE <<>>)
LinearListeners(o) ==
  (IF o.do_plotting /\ o.method = "ign" THEN <<"lin_plot">> ELSE <<>>)
  \o (IF o.monitor_adjoint /\ o.method = "ign" THEN <<"monitor_adjoint_lin">> ELSE <<>>)

\* line 553
XUpdateListenersNone == <<>>
XUpdateListeners == <<"zeta_saver">>

\* lines 570-574: the branch taken on solveInverse's result, and the reason
\* printed in it (solver.inverseConvergedReason())
SolveBranchSwapped(success) == IF success THEN "FAILURE" ELSE "success"
SolveBranch(success) == IF success THEN "success" ELSE "FAILURE"
ReportedReasonDropped(r) == "none"
ReportedReason(r) == r

\* line 579: convertToTauc(zeta, tauc)
FinalTaucKept(z, t) == t
FinalTauc(z, t) == to_physical(z)

\* line 324
MainStart ==
  /\ pc = "start"
  /\ abort_on_sigint' = AbortOnSigint
  /\ pc' = "setup"
  /\ UNCHANGED <<env, file, tauc, tauc_prior, zeta, mask, fixed, msg, logged,
                 logger, lst, eng, evt, cnt, sig, gho>>

\* lines 411-414: Vel2Tauc.setup (with _initSSACoefficients, lines 81-155)
Setup ==
  /\ pc = "setup"
  /\ IF inp.missing = "misfit_element_mask"
     THEN /\ pc' = "exception"
          /\ msg' = "Exception"
          /\ UNCHANGED <<mask, fixed>>
     ELSE /\ mask' = ZetaFixedMask(inp.grounded)
          /\ fixed' = FixedLocations(opts.using_zeta_fixed_mask, ZetaFixedMask(inp.grounded))
          /\ pc' = "prior"
          /\ msg' = msg
  /\ UNCHANGED <<env, file, abort_on_sigint, tauc, tauc_prior, zeta, logged,
                 logger, lst, eng, evt, cnt, sig, gho>>

\* lines 428-439
TaucPrior ==
  /\ pc = "prior"
  /\ IF opts.use_tauc_prior
     THEN /\ tauc_prior' = TaucPriorInput
          /\ pc' = "zeta_init"
          /\ UNCHANGED <<tauc, msg>>
     ELSE IF inp.missing = "tauc"
     THEN /\ pc' = "exit1"
          /\ msg' = "NoTauc"
          /\ UNCHANGED <<tauc, tauc_prior>>
     ELSE /\ tauc' = inp.tauc
          /\ tauc_prior' = inp.tauc
          /\ pc' = "zeta_init"
          /\ msg' = msg
  /\ UNCHANGED <<env, file, abort_on_sigint, zeta, mask, fixed, logged,
                 logger, lst, eng, evt, cnt, sig, gho>>

\* lines 453-463
ZetaInit ==
  /\ pc = "zeta_init"
  /\ IF opts.do_restart /\ ~file.has_zeta
     THEN /\ pc' = "exit1"
          /\ msg' = "NoZetaInv"
          /\ zeta' = zeta
     ELSE /\ zeta' = InitialZeta(opts.do_restart, file.zeta_inv, tauc_prior)
          /\ pc' = "test_adjoint"
          /\ msg' = msg
  /\ UNCHANGED <<env, file, abort_on_sigint, tauc, tauc_prior, mask, fixed, logged,
                 logger, lst, eng, evt, cnt, sig, gho>>

\* lines 466-484: testTStar solves the forward problem and applies the adjoint
TestAdjoint ==
  /\ pc = "test_adjoint"
  /\ IF ~opts.test_adjoint
     THEN /\ pc' = "observed"
          /\ UNCHANGED <<msg, cnt>>
     ELSE IF IsTikhonov(opts.method)
     THEN /\ pc' = "exit1"
          /\ msg' = "InvalidConfiguration"
          /\ UNCHANGED cnt
     ELSE /\ nForward' = nForward + 1
          /\ nAdjoint' = nAdjoint + 1
          /\ msg' = "AdjointTested"
          /\ pc' = "exit0"
  /\ UNCHANGED <<env, file, abort_on_sigint, tauc, tauc_prior, zeta, mask, fixed,
                 logged, logger, lst, eng, evt, sig, gho>>

\* lines 486-506
Observed ==
  /\ pc = "observed"
  /\ IF inp.missing = "observed"
     THEN pc' = "exit1" /\ msg' = "NoObservations"
     ELSE pc' = "prep_output" /\ msg' = msg
  /\ UNCHANGED <<env, file, abort_on_sigint, tauc, tauc_prior, zeta, mask, fixed,
                 logged, logger, lst, eng, evt, cnt, sig, gho>>

\* CarefulCaptureLogger(output_filename): takes over the siple log of the file
CarefulCaptureLogger(f) == f.log
\* lines 515-517: on a restart the logger is made before the file is re-created
LoggerAtPrepLate(restart, lg, f) == lg
LoggerAtPrep(restart, lg, f) == IF restart THEN CarefulCaptureLogger(f) ELSE lg
\* lines 519-524: PIO.open(NC_WRITE, False) re-creates the file
Recreated(f) == [has_zeta |-> FALSE, zeta_inv |-> Zero, ckIter |-> 0,
                 log |-> "empty", gen |-> f.gen + 1]

\* lines 512-524: unless appending, the output file is re-created
PrepOutput ==
  /\ pc = "prep_output"
  /\ IF ~opts.append_mode
     THEN /\ logger' = LoggerAtPrep(opts.do_restart, logger, file)
          /\ file' = Recreated(file)
     ELSE UNCHANGED <<logger, file>>
  /\ pc' = "write_zeta"
  /\ UNCHANGED <<env, abort_on_sigint, tauc, tauc_prior, zeta, mask, fixed, msg, logged,
                 lst, eng, evt, cnt, sig, gho>>

\* lines 525-532: zeta.write(output_filename); the logger, if not made yet
WriteZeta ==
  /\ pc = "write_zeta"
  /\ file' = [file EXCEPT !.has_zeta = TRUE, !.zeta_inv = zeta, !.ckIter = 0]
  /\ logger' = IF logger = "unset" THEN CarefulCaptureLogger(file) ELSE logger
  /\ pc' = "register"
  /\ UNCHANGED <<env, abort_on_sigint, tauc, tauc_prior, zeta, mask, fixed, msg, logged,
                 lst, eng, evt, cnt, sig, gho>>

\* lines 534-553
RegisterListeners ==
  /\ pc = "register"
  /\ itL' = IterationListeners(opts)
  /\ linL' = LinearListeners(opts)
  /\ xL' = XUpdateListeners
  /\ pc' = "solve_call"
  /\ UNCHANGED <<env, file, drv, eng, evt, cnt, sig, gho>>

(* ------------------- the solver (Iteration Controller) ----------------- *)
ZetaPrior == to_parameter(tauc_prior)
Running == pc = "solve" /\ est \notin EngineTerminal
RefNext == RefStep(ref, opts.method, fixed, inp.obs, ZetaPrior)

\* line 570: solver.solveInverse(zeta, vel_ssa_observed) is entered
SolveStart ==
  /\ pc = "solve_call"
  /\ pc' = "solve"
  /\ est' = "Initialized" /\ epc' = "poll" /\ iter' = 0 /\ reason' = "none"
  /\ zeta0' = zeta
  /\ UNCHANGED <<env, file, drv, lst, d, trial, lin, evt, cnt, sig, gho>>

\* top of the loop: the interrupt flag is polled
IterStart ==
  /\ Running /\ epc = "poll" /\ evkind = "none"
  /\ IF sigflag
     THEN est' = "Cancelled" /\ reason' = "UserCancelled" /\ epc' = "end"
     ELSE est' = "Iterating" /\ reason' = reason /\ epc' = "forward"
  /\ UNCHANGED <<env, file, pc, drv, lst, iter, d, trial, lin, zeta0, evt, cnt, sig, gho>>

\* forward solve at the current iterate; there is no step to shrink here
EvalForward ==
  /\ Running /\ epc = "forward"
  /\ nForward' = nForward + 1
  /\ IF ForwardFails(zeta)
     THEN /\ est' = "Failed" /\ reason' = "ForwardSolveFailure" /\ epc' = "end"
          /\ ref' = RefNext
     ELSE /\ epc' = "residual"
          /\ UNCHANGED <<est, reason, ref>>
  /\ UNCHANGED <<env, file, pc, drv, lst, iter, d, trial, lin, zeta0, evt, nAdjoint,
                 sig, relaunched>>

\* residual and objective of the current iterate; convergence test
EvalResidual ==
  /\ Running /\ epc = "residual"
  /\ LET c == ConvergenceTest(opts.method, zeta, inp.obs, ZetaPrior, iter) IN
     IF c # "continue"
     THEN /\ est' = StateOf(c) /\ reason' = c /\ epc' = "end"
          /\ ref' = RefNext
     ELSE /\ epc' = "direction"
          /\ UNCHANGED <<est, reason, ref>>
  /\ UNCHANGED <<env, file, pc, drv, lst, iter, d, trial, lin, zeta0, evt, cnt,
                 sig, relaunched>>

\* method-specific direction from the adjoint, FixedMask applied
ComputeDirection ==
  /\ Running /\ epc = "direction"
  /\ nAdjoint' = nAdjoint + 1
  /\ d' = MaskDir(RawDirection(opts.method, zeta, inp.obs, ZetaPrior), fixed)
  /\ trial' = 0 /\ lin' = 0
  /\ epc' = IF opts.method = "ign" THEN "linear" ELSE "trial"
  /\ UNCHANGED <<env, file, pc, drv, lst, est, iter, reason, zeta0, evt, nForward,
                 sig, gho>>

\* inner (linear) sub-iterations of 'ign', each reported to the linear listeners
LinearIteration ==
  /\ Running /\ epc = "linear" /\ evkind = "none"
  /\ IF lin < LinIters
     THEN /\ lin' = lin + 1
          /\ evkind' = "linear" /\ evq' = linL /\ calls' = <<>>
          /\ epc' = epc
     ELSE /\ epc' = "trial"
          /\ UNCHANGED <<lin, evt>>
  /\ UNCHANGED <<env, file, pc, drv, lst, est, iter, reason, d, trial, zeta0, cnt,
                 sig, gho>>

\* one trial of the line search; an accepted trial updates the iterate
LineSearchTrial ==
  /\ Running /\ epc = "trial"
  /\ IF sigflag
     THEN /\ est' = "Cancelled" /\ reason' = "UserCancelled" /\ epc' = "end"
          /\ UNCHANGED <<zeta, iter, trial, evt, nForward, ref>>
     ELSE IF TrialsExhausted(trial)
     THEN /\ est' = "Failed" /\ reason' = "LineSearchFailure" /\ epc' = "end"
          /\ ref' = RefNext
          /\ UNCHANGED <<zeta, iter, trial, evt, nForward>>
     ELSE LET cand == Candidate(zeta, d, trial) IN
          /\ nForward' = nForward + 1
          /\ IF Accept(opts.method, zeta, cand, inp.obs, ZetaPrior)
             THEN /\ zeta' = cand
                  /\ iter' = iter + 1
                  /\ epc' = "listeners"
                  /\ evkind' = "xupdate" /\ evq' = xL /\ calls' = <<>>
                  /\ ref' = RefNext
                  /\ trial' = trial
             ELSE /\ trial' = trial + 1
                  /\ UNCHANGED <<zeta, iter, epc, evt, ref>>
          /\ UNCHANGED <<est, reason>>
  /\ UNCHANGED <<env, file, pc, abort_on_sigint, tauc, tauc_prior, mask, fixed, msg,
                 logged, logger, lst, d, lin, zeta0, nAdjoint, sig, relaunched>>

\* ZetaSaver: the iterate goes to 'zeta_inv' of the output file
Saved(name, f) ==
  IF name = "zeta_saver"
  THEN [f EXCEPT !.has_zeta = TRUE, !.zeta_inv = zeta, !.ckIter = iter]
  ELSE f

\* a listener's failure is not swallowed: it ends the solve
ListenerOutcome(ok) == IF ok THEN "none" ELSE "ListenerFailure"

\* the next listener of the event is called; it may fail
CallListener ==
  /\ Running /\ evkind # "none" /\ evq # <<>>
  /\ evq' = Tail(evq)
  /\ \E ok \in BOOLEAN :
       /\ calls' = Append(calls, <<Head(evq), ok>>)
       /\ IF ListenerOutcome(ok) = "none"
          THEN /\ file' = IF ok THEN Saved(Head(evq), file) ELSE file
               /\ UNCHANGED <<est, reason, epc>>
          ELSE /\ est' = "Failed" /\ reason' = ListenerOutcome(ok) /\ epc' = "end"
               /\ file' = file
  /\ UNCHANGED <<env, pc, drv, lst, iter, d, trial, lin, zeta0, evkind, cnt, sig, gho>>

\* every listener of the event has returned
EventDone ==
  /\ Running /\ evkind # "none" /\ evq = <<>>
  /\ IF evkind = "xupdate"
     THEN evkind' = "iteration" /\ evq' = itL /\ calls' = <<>> /\ epc' = epc
     ELSE IF evkind = "iteration"
     THEN evkind' = "none" /\ epc' = "poll" /\ evq' = evq /\ calls' = <<>>
     ELSE evkind' = "none" /\ epc' = epc /\ evq' = evq /\ calls' = <<>>
  /\ UNCHANGED <<env, file, pc, drv, lst, est, iter, reason, d, trial, lin, zeta0,
                 cnt, sig, gho>>

(* --------------------- the driver, after the solve --------------------- *)
\* lines 570-574
SolveReturn ==
  /\ pc = "solve" /\ est \in EngineTerminal
  /\ logged' = <<SolveBranch(est = "Converged"), ReportedReason(reason)>>
  /\ pc' = IF SolveBranch(est = "Converged") = "success" THEN "convert" ELSE "quit"
  /\ UNCHANGED <<env, file, abort_on_sigint, tauc, tauc_prior, zeta, mask, fixed, msg,
                 logger, lst, eng, evt, cnt, sig, gho>>

\* lines 576-587
Convert ==
  /\ pc = "convert"
  /\ tauc' = FinalTauc(zeta, tauc)
  /\ pc' = "write"
  /\ UNCHANGED <<env, file, abort_on_sigint, tauc_prior, zeta, mask, fixed, msg, logged,
                 logger, lst, eng, evt, cnt, sig, gho>>

\* lines 589-594: unless appending, write re-creates the file and the siple
\* log is written to it again
WriteOut ==
  /\ pc = "write"
  /\ file' = IF opts.append_mode
             THEN [file EXCEPT !.has_zeta = TRUE, !.zeta_inv = zeta, !.ckIter = iter]
             ELSE [has_zeta |-> TRUE, zeta_inv |-> zeta, ckIter |-> iter,
                   log |-> logger, gen |-> file.gen + 1]
  /\ pc' = "done"
  /\ UNCHANGED <<env, drv, lst, eng, evt, cnt, sig, gho>>

(* ----------------------------- interrupts ------------------------------ *)
Position == IF pc # "solve" THEN pc ELSE IF evkind # "none" THEN evkind ELSE epc

\* SIGINT arrives; with abort-on-SIGINT the process ends there and then
Sigint ==
  /\ pc \notin Terminal /\ pc # "start" /\ ~sigint
  /\ sigint' = TRUE
  /\ abortedAt' = Position
  /\ IF abort_on_sigint
     THEN /\ Forget
          /\ pc' = "aborted"
     ELSE /\ sigflag' = TRUE
          /\ UNCHANGED <<pc, drv, lst, eng, evt, cnt>>
  /\ UNCHANGED <<env, file, gho>>

\* the stopped computation is started again with -inv_restart
Relaunch ==
  /\ pc \in {"aborted", "quit"} /\ ~relaunched
  /\ relaunched' = TRUE
  /\ opts' = [opts EXCEPT !.do_restart = TRUE]
  /\ ref' = [active |-> file.has_zeta, zeta |-> file.zeta_inv, iter |-> file.ckIter,
             reason |-> "none"]
  /\ Forget
  /\ pc' = "start"
  /\ sigint' = FALSE /\ abortedAt' = "none"
  /\ UNCHANGED <<inp, file>>

Next ==
  \/ MainStart \/ Setup \/ TaucPrior \/ ZetaInit \/ TestAdjoint \/ Observed
  \/ PrepOutput \/ WriteZeta \/ RegisterListeners \/ SolveStart
  \/ IterStart \/ EvalForward \/ EvalResidual \/ ComputeDirection \/ LinearIteration
  \/ LineSearchTrial \/ CallListener \/ EventDone
  \/ SolveReturn \/ Convert \/ WriteOut \/ Sigint

Spec == Init /\ [][Next]_vars

\* runs that are stopped and started again with -inv_restart
InitRestart ==
  /\ Init
  /\ ~opts.do_plotting /\ ~opts.monitor_adjoint /\ ~opts.do_pause
  /\ ~opts.test_adjoint /\ ~opts.do_restart
  /\ inp.missing = "none"
NextRestart == Next \/ Relaunch
SpecRestart == InitRestart /\ [][NextRestart]_vars

\* the line search on its own: a solve that stands at the start of a line
\* search, at any of a few points and with any of a few directions, descent
\* directions and ascent directions alike
LSPoints == {Const(1), [c \in Cells |-> IF c = 1 THEN ZetaMax - 1 ELSE 1]}
LSDirections == [Cells -> {-2, 0, 2}]
InitLS ==
  /\ opts \in Options /\ inp \in Inputs
  /\ ~opts.do_plotting /\ ~opts.monitor_adjoint /\ ~opts.do_pause
  /\ ~opts.test_adjoint /\ ~opts.do_restart /\ ~opts.use_tauc_prior
  /\ ~opts.append_mode /\ ~opts.using_zeta_fixed_mask
  /\ inp.missing = "none"
  /\ zeta \in LSPoints /\ d \in LSDirections
  /\ file = [has_zeta |-> TRUE, zeta_inv |-> zeta, ckIter |-> 0,
             log |-> "empty", gen |-> 1]
  /\ pc = "solve"
  /\ abort_on_sigint = AbortOnSigint
  /\ tauc = inp.tauc /\ tauc_prior = inp.tauc
  /\ mask = ZetaFixedMask(inp.grounded) /\ fixed = Zero
  /\ itL = IterationListeners(opts) /\ linL = LinearListeners(opts)
  /\ xL = XUpdateListeners
  /\ msg = "none" /\ logged = <<>> /\ logger = "empty"
  /\ est = "Iterating" /\ epc = "trial" /\ iter = 0 /\ reason = "none"
  /\ trial = 0 /\ lin = 0 /\ zeta0 = zeta
  /\ evkind = "none" /\ evq = <<>> /\ calls = <<>>
  /\ nForward = 0 /\ nAdjoint = 0
  /\ sigflag = FALSE /\ sigint = FALSE /\ abortedAt = "none"
  /\ relaunched = FALSE /\ ref = NoRef
NextLS == LineSearchTrial \/ CallListener \/ EventDone \/ SolveReturn
\* the process goes on running as long as it has a step to take
SpecLineSearch == InitLS /\ [][NextLS]_vars /\ WF_vars(NextLS)

(* ============================= properties ============================== *)
TikhonovNames == {"tikhonov_lmvm", "tikhonov_cg", "tikhonov_blmvm", "tikhonov_lcl"}
BeforeZeta == {"start", "setup", "prior", "zeta_init"}
BeforeSolve == BeforeZeta \cup {"test_adjoint", "observed", "prep_output", "write_zeta",
                                "register", "solve_call"}
AfterSolve == {"quit", "convert", "write", "done"}
\* the positions at which zeta has been initialised (lines 453-463 are behind)
WithZeta == {"test_adjoint", "observed", "prep_output", "write_zeta", "register",
             "solve_call", "solve"} \cup AfterSolve
Alive == pc # "aborted"
Names(cs) == [i \in 1..Len(cs) |-> cs[i][1]]

\* C1: when -inv_test_adjoint is given with a tikhonov_* method, no forward solve,
\* adjoint evaluation or solver iteration is ever executed, the run never gets
\* past the adjoint-test branch, and it ends there with the invalid-configuration
\* exit (exit code 1) unless an input file was already rejected before it.
C1_NoSolveWithTikhonovAdjointTest ==
  (opts.test_adjoint /\ opts.method \in TikhonovNames) =>
    /\ nForward = 0 /\ nAdjoint = 0 /\ iter = 0 /\ est = "None"
    /\ pc \in BeforeZeta \cup {"test_adjoint", "exit1", "exception", "aborted"}
    /\ (pc = "exit1" /\ inp.missing = "none" => msg = "InvalidConfiguration")
    /\ (msg = "InvalidConfiguration" => pc = "exit1")

C1_Witness ==
  /\ opts.test_adjoint /\ opts.method \in TikhonovNames
  /\ pc = "exit1" /\ msg = "InvalidConfiguration" /\ zeta # Zero

\* C2: during and after a solve, zeta at every cell the SSA was told to keep fixed
\* equals its value when the solve started; under -use_zeta_fixed_mask these are
\* exactly the cells zeta_fixed_mask marks 1 (the cells without grounded ice).
C2_FixedCellsKeepZeta ==
  (pc = "solve" \/ pc \in AfterSolve) =>
    /\ \A c \in Cells : fixed[c] # 0 => zeta[c] = zeta0[c]
    /\ opts.using_zeta_fixed_mask =>
         \A c \in Cells : ~inp.grounded[c] => mask[c] = 1 /\ zeta[c] = zeta0[c]

C2_Witness ==
  /\ opts.using_zeta_fixed_mask /\ pc = "solve" /\ iter >= 2
  /\ zeta[1] # zeta0[1]
  /\ \E c \in Cells : mask[c] = 1 /\ Residual(zeta, inp.obs)[c] # 0

\* C3 (as claimed): after a restart, and from then on, tauc = to_physical(zeta).
C3_Original ==
  (opts.do_restart /\ pc \in WithZeta) => tauc = to_physical(zeta)

\* C3 (amended): tauc is to_physical(zeta) once the solve has succeeded and the
\* driver has converted zeta back (line 579); until then, also after a restart
\* and when the solve has failed, tauc is what was read from the input file
\* (nothing under -use_tauc_prior).
C3_TaucConvertedAfterSuccess ==
  /\ pc \in {"write", "done"} => tauc = to_physical(zeta)
  /\ pc \in WithZeta \ {"write", "done"} =>
       tauc = IF opts.use_tauc_prior THEN Zero ELSE inp.tauc

C3_Witness ==
  /\ pc = "done" /\ opts.do_restart /\ iter >= 1
  /\ tauc = to_physical(zeta) /\ tauc # inp.tauc

\* C4: a solve that ends without converging ends in a terminal state with one of
\* the named reasons; the driver then takes the failure branch and logs exactly
\* that reason, and no exception leaves the solve.
FailureReasons == {"LineSearchFailure", "ForwardSolveFailure", "DivergedResidual",
                   "MaxIterationsExceeded", "ListenerFailure", "UserCancelled"}
C4_FailureIsReturnedWithReason ==
  /\ (est \in EngineTerminal /\ est # "Converged") => reason \in FailureReasons
  /\ (est \in EngineTerminal /\ est # "Converged" /\ pc # "solve") =>
       pc = "quit" /\ logged = <<"FAILURE", reason>>
  /\ pc = "quit" => est \in EngineTerminal \ {"Converged"}
  /\ pc = "exception" => est = "None"

C4_Witness ==
  /\ pc = "quit" /\ logged = <<"FAILURE", "MaxIterationsExceeded">> /\ iter = MaxIter

\* C5: the solver state only moves None -> Initialized -> Iterating -> terminal;
\* a terminal state is left only by the process ending, and in it nothing is
\* iterated, updated or called; Converged is entered only with the objective
\* within its target; every terminal state has a reason.
C5_Step ==
  /\ est' # est =>
       \/ est = "None" /\ est' = "Initialized"
       \/ est = "Initialized" /\ est' = "Iterating"
       \/ est = "Iterating" /\ est' \in EngineTerminal
       \/ est' = "None" /\ pc' \in {"aborted", "start"}
  /\ (est \in EngineTerminal /\ est' = est) =>
       UNCHANGED <<zeta, iter, reason, calls, evq, nForward, nAdjoint, file>> \/ pc' = "done"
  /\ (est' = "Converged" /\ est # "Converged") =>
       /\ Objective(opts.method, zeta', inp.obs, ZetaPrior) <= Target(opts.method)
       /\ reason' = "Success"
  /\ est' \in EngineTerminal => reason' # "none"
C5_ControllerStates == [][C5_Step]_vars

C5_Witness ==
  /\ est = "Converged" /\ iter >= 2 /\ pc = "done"

\* C6 (as claimed): an interrupt during a solve leaves the process running until
\* the solver reaches the state Cancelled.
C6_Original ==
  (sigint /\ abortedAt \notin BeforeSolve) =>
    /\ pc # "aborted"
    /\ pc = "quit" => est = "Cancelled"

\* C6 (amended): with abort-on-SIGINT set by the driver, an interrupt ends the
\* process at once wherever it arrives, also in the middle of an evaluation; the
\* solver never enters Cancelled; the output file is left as last written.
C6_Step ==
  (sigint' /\ ~sigint) => pc' = "aborted" /\ est' = "None" /\ file' = file
C6_InterruptAborts ==
  /\ [][C6_Step]_vars
  /\ [](est # "Cancelled" /\ reason # "UserCancelled" /\ (sigint => pc = "aborted"))

C6_Witness ==
  /\ pc = "aborted" /\ abortedAt = "forward" /\ file.ckIter >= 1

\* C7: the listeners of an event are called one after the other, right after the
\* event and before the solve goes on, in the order they were registered; the
\* driver registers plot, adjoint monitor, pause, progress printer in this order.
Rank(n) == IF n = "plot" THEN 1 ELSE IF n = "monitor_adjoint" THEN 2
           ELSE IF n = "pause" THEN 3 ELSE 4
Registered(n) ==
  IF n = "plot" THEN opts.do_plotting
  ELSE IF n = "monitor_adjoint" THEN opts.monitor_adjoint
  ELSE IF n = "pause" THEN opts.do_pause
  ELSE IF n = "printTikhonovProgress" THEN opts.method \in TikhonovNames
  ELSE IF n = "printRMSMisfit" THEN opts.method \notin TikhonovNames
  ELSE FALSE
ListenerNames == {"plot", "monitor_adjoint", "pause", "printTikhonovProgress",
                  "printRMSMisfit"}
C7_ListenersInRegistrationOrder ==
  /\ pc \in {"solve_call", "solve"} \cup AfterSolve =>
       /\ \A n \in ListenerNames : Registered(n) <=> \E i \in 1..Len(itL) : itL[i] = n
       /\ \A i, j \in 1..Len(itL) : i < j => Rank(itL[i]) < Rank(itL[j])
  /\ evkind = "iteration" => Names(calls) \o evq = itL
  /\ evkind = "linear" => Names(calls) \o evq = linL
  /\ evkind = "xupdate" => Names(calls) \o evq = xL
  /\ (evkind # "none" /\ est = "Iterating") => epc \in {"listeners", "linear"}

C7_Witness ==
  /\ evkind = "iteration" /\ evq = <<>> /\ iter = 2
  /\ Names(calls) = <<"plot", "monitor_adjoint", "pause", "printRMSMisfit">>

\* C8: once a listener call has failed the solve is Failed with the reason
\* ListenerFailure, no later listener is called, nothing is iterated any more,
\* and the driver reports the failure.
ListenerFailed == \E i \in 1..Len(calls) : ~calls[i][2]
C8_Step ==
  (ListenerFailed /\ pc' # "aborted") =>
    UNCHANGED <<zeta, iter, calls, evq, nForward, nAdjoint, file, est, reason>>
C8_ListenerFailureAborts ==
  /\ [][C8_Step]_vars
  /\ [](ListenerFailed =>
         /\ ~calls[Len(calls)][2] /\ \A i \in 1..(Len(calls) - 1) : calls[i][2]
         /\ est = "Failed" /\ reason = "ListenerFailure"
         /\ pc \in {"solve", "quit"}
         /\ pc = "quit" => logged = <<"FAILURE", "ListenerFailure">>)

C8_Witness ==
  /\ pc = "quit" /\ ListenerFailed /\ calls[Len(calls)][1] = "zeta_saver" /\ iter = 2

\* C9: for every method other than 'ign' the driver registers no
\* linear-iteration listener and the solve has no linear sub-iteration event.
C9_LinearListenersOnlyForIgn ==
  /\ opts.method # "ign" => linL = <<>> /\ evkind # "linear" /\ epc # "linear"
  /\ evkind = "linear" => \A i \in 1..Len(calls) : calls[i][1] \in {"lin_plot", "monitor_adjoint_lin"}
  /\ evkind # "linear" => \A i \in 1..Len(calls) : calls[i][1] \notin {"lin_plot", "monitor_adjoint_lin"}

C9_Witness ==
  /\ opts.method = "tikhonov_cg" /\ opts.do_plotting /\ opts.monitor_adjoint
  /\ evkind = "iteration" /\ Len(calls) = 3 /\ iter >= 1

\* C10 (as claimed): the restarted solve has the iterates and the terminal state
\* of the uninterrupted solve continued from the checkpointed iteration.
C10_Original ==
  (relaunched /\ ref.active /\ pc = "solve" /\ reason # "ListenerFailure") =>
    zeta = ref.zeta /\ reason = ref.reason

\* C10 (amended): the restarted solve starts from the checkpointed iterate with
\* its iteration count at 0 (only zeta is restored); it has the iterates and
\* the terminal state of the uninterrupted solve, except that the uninterrupted
\* solve may stop on its iteration limit where the restarted one goes on.
C10_RestartFollowsWhileUninterruptedRuns ==
  (relaunched /\ ref.active /\ pc = "solve") =>
    /\ est = "Initialized" => zeta = ref.zeta /\ iter = 0
    /\ (ref.reason # "MaxIterationsExceeded" /\ reason # "ListenerFailure") =>
         zeta = ref.zeta /\ reason = ref.reason /\ iter <= ref.iter

C10_Witness ==
  /\ relaunched /\ ref.active /\ pc = "solve" /\ ref.reason = "none"
  /\ ref.iter = 2 /\ iter = 1 /\ zeta = ref.zeta /\ zeta # zeta0

SaverPending == evkind = "xupdate" /\ evq # <<>>
SaverFailed == \E i \in 1..Len(calls) : calls[i] = <<"zeta_saver", FALSE>>
NoDescent ==
  \A t \in 0..(MaxTrials - 1) :
    ~Accept(opts.method, zeta0, Candidate(zeta0, d, t), inp.obs, ZetaPrior)
Ascent ==
  /\ \A c \in Cells : d[c] * Residual(zeta0, inp.obs)[c] <= 0
  /\ \E c \in Cells : d[c] * Residual(zeta0, inp.obs)[c] < 0
C12_Step ==
  trial' # trial =>
    trial' = trial + 1 /\ nForward' = nForward + 1 /\ zeta' = zeta
C12_LineSearchTerminates ==
  /\ [][C12_Step]_vars
  /\ [](trial <= MaxTrials /\ nForward <= MaxTrials)
  /\ [](reason = "LineSearchFailure" =>
         /\ NoDescent /\ est = "Failed" /\ zeta = zeta0 /\ iter = 0
         /\ trial = MaxTrials /\ nForward = MaxTrials)
  /\ [](iter = 1 => ~NoDescent /\ nForward = trial + 1)
  /\ <>(epc # "trial")
  /\ (NoDescent ~> (pc = "quit" /\ logged = <<"FAILURE", "LineSearchFailure">>))

C12_Witness ==
  /\ pc = "quit" /\ reason = "LineSearchFailure" /\ Ascent
  /\ nForward = MaxTrials
  /\ ForwardFails(Candidate(zeta0, d, 0))
  /\ ~ForwardFails(Candidate(zeta0, d, MaxTrials - 1))

\* C13: in a restart run that is not in append mode, 'zeta_inv' and the prior
\* siple log are taken from the old output file before the file is re-created;
\* when 'zeta_inv' is missing the run is rejected with the file untouched; the
\* re-created file holds zeta before solveInverse is called, and the prior log
\* is back in the file the run writes at its end.
C13_OldFileReadBeforeRecreated ==
  (opts.do_restart /\ ~opts.append_mode) =>
    /\ (Alive /\ file.gen > 0) => logger = "prior"
    /\ (file.gen > 0 /\ pc \in {"write_zeta", "register", "solve_call"}) =>
         zeta = OldCheckpoint
    /\ msg = "NoZetaInv" => pc = "exit1"
    /\ inp.missing = "zeta_inv" =>
         /\ file = OldFile(FALSE)
         /\ pc \in BeforeZeta \cup {"exit1", "aborted"}
    /\ pc = "write_zeta" => file.gen = 1 /\ ~file.has_zeta
    /\ pc \in {"register", "solve_call", "solve"} => file.has_zeta /\ file.gen = 1
    /\ pc \in {"register", "solve_call"} => file.zeta_inv = zeta
    /\ pc = "done" => file.log = "prior" /\ file.gen = 2

C13_Witness ==
  /\ opts.do_restart /\ ~opts.append_mode /\ pc = "solve_call"
  /\ file.gen = 1 /\ file.log = "empty" /\ logger = "prior"
  /\ file.zeta_inv = OldCheckpoint /\ zeta = OldCheckpoint

====
